---- MODULE Spec2Model ----
(***************************************************************************)
(* Model of the queen-placement genetic engine: chromosomes               *)
(* (src/src/chromosome.rs), the fitness evaluator (src/src/board.rs) and  *)
(* the selection strategies with crossover (src/src/selection.rs).        *)
(*                                                                         *)
(* A chromosome is a sequence of genes (u16); a generation is a sequence  *)
(* of chromosomes.  Vec indices of the source are 0-based, sequences here *)
(* are 1-based: position k of the source is position k + 1 here.          *)
(* Random choices (shuffles, the mutation draw) and the unspecified tie   *)
(* of a parallel max are nondeterministic choices.                        *)
(*                                                                         *)
(* Spec is the engine: a first population and any sequence of             *)
(* new_generation calls under the configured strategy.  SpecCrossover is  *)
(* one crossover call on two parents, SpecBoard one evaluation of a gene  *)
(* sequence by a Board.                                                    *)
(*                                                                         *)
(* SpecMain is main (src/src/bin/queen_placement.rs) from the parsed      *)
(* configuration on.  SpecAdamAndEve and SpecKillTheHalf are one          *)
(* new_generation call on a larger population, SpecGenerations the engine *)
(* together with the single KillTheHalf calls.  SpecMismatch is one       *)
(* crossover call on parents of different lengths, in a build with and in *)
(* one without debug assertions.  SpecProbability is one call of a        *)
(* Probability constructor, SpecNewGeneration one call of                 *)
(* Chromosome::new_generation, a step per task of its parallel loop, and  *)
(* SpecBoardOld a Board of src/src/board_old.rs with its calls.           *)
(*                                                                         *)
(* SpecParallel is one call of Chromosome::new_generation with the tasks  *)
(* of its parallel loop interleaved step by step around the Mutex.         *)
(* SpecMaybeMutate is one call of Chromosome::maybe_mutate, a step per    *)
(* sample; SpecMaybeMutateFair is the same with a fair sampler.            *)
(***************************************************************************)
EXTENDS Integers, Sequences, FiniteSets, TLC

\* ------------------------------------------------------------------ bounds
\* Largest board size (Config::board_size) explored.
MaxBoardSize == 4
\* Largest population (Config::generation_size) explored.
MaxGenerationSize == 6
\* Largest number of genes (board size * population) of a population made of
\* solutions only.
MaxGenes == 12
\* Largest number of different populations of one shape explored in full.
MaxPopulations == 600
\* Largest number of populations of one shape given to a single call.
MaxCallPopulations == 5000
\* Largest number of different offspring vectors of one AdamAndEve call on
\* its own.
MaxSiblings == 40
\* Resolution of probabilities: the f32 p in [0.0, 1.0] is the integer
\* p * ProbabilityScale in 0..ProbabilityScale.
ProbabilityScale == 2
\* Largest length and largest gene value of the free-form gene sequences
\* given to the evaluator (the test fixtures of board.rs fit in them).
MaxFixtureLen == 3
MaxFixtureGene == 4
\* Largest magnitude (scaled as a probability is) of the finite f32 values
\* given to the Probability constructors.
MaxGiven == 20
\* board_old.rs: the largest width and height of a Board, and the largest
\* number of pieces put on one.
MaxOldBoard == 3
MaxPieces == 3
\* Chromosome::new_generation: the largest number of tasks of its parallel
\* loop explored step by step.
MaxTasks == 3

\* ------------------------------------------------------------ program state
VARIABLES
    board_size,            \* Config::board_size
    selection_strategy,    \* Config::selection_strategy
    mutation_probability,  \* Config::mutation_probability (scaled)
    generation,            \* main's `generation`: the current population
    status,                \* where the program is: "parsed", "created" or "ready"
                           \* before a call, "running" within one, then how the
                           \* last call ended ("returned", "done", "panicked", ...)
    parent1,               \* the arguments and the result of a crossover call
    parent2,
    offspring,
    mutated,               \* did that crossover call take the mutation return
    genes,                 \* the chromosome a Board views, and what it computed
    beats,
    fit,
    generation_size,       \* Config::generation_size
    debug_assertions,      \* is the build one with cfg(debug_assertions)
    given,                 \* the f32 (or &str) a Probability constructor or
                           \* maybe_mutate is given, and the constructor's result
    made,
    new_population_size,   \* Chromosome::new_generation: its population_size,
    tasks,                 \* the tasks of its parallel loop still to run,
    new_generation_vec,    \* and the vector behind its mutex, then its result
    task_locals,           \* each task's position and local variables,
    mutex,                 \* the Mutex around the vector: its holder, is it poisoned
    strong_count,          \* the strong count of the Arc around the Mutex
    idx1,                  \* maybe_mutate: its two sampled indices
    idx2,
    width,                 \* board_old.rs: the Board's fields
    height,
    pieces,
    beaten                 \* what the last has_beaten() returned

vars == <<board_size, selection_strategy, mutation_probability, generation,
          status, parent1, parent2, offspring, mutated, genes, beats, fit,
          generation_size, debug_assertions, given, made,
          new_population_size, tasks, new_generation_vec,
          task_locals, mutex, strong_count, idx1, idx2,
          width, height, pieces, beaten>>

\* The variables of the Probability constructors, of
\* Chromosome::new_generation and of board_old.rs.
probabilityVars == <<given, made>>
chromosomeVars == <<new_population_size, tasks, new_generation_vec,
                    task_locals, mutex, strong_count, idx1, idx2>>
boardOldVars == <<width, height, pieces, beaten>>

\* ------------------------------------------------------------------ helpers
Abs(x) == IF x < 0 THEN -x ELSE x

\* usize / u16 abs_diff
AbsDiff(a, b) == Abs(a - b)

\* The empty Option<Gene>; genes are u16, so -1 is no gene.
None == -1

\* The results a shuffle of the distinct values S can give: every ordering.
Shuffles(S) ==
    {f \in [1..Cardinality(S) -> S] : \A i, j \in 1..Cardinality(S) : i # j => f[i] # f[j]}

\* A result of a call that may panic.
Ok(v) == [ok |-> TRUE, val |-> v]
Panic == [ok |-> FALSE, val |-> <<>>]

\* An Err(anyhow::Error) result.
Err == [ok |-> FALSE, val |-> "Err"]

\* ------------------------------------------------------- chromosome.rs
\* Chromosome::new(base): (0..base) shuffled.
ChromosomeNew(base) == Shuffles(0..(base - 1))

\* ------------------------------------------------------------- board.rs
\* Mutant of Attacks: the test x1 != x2 is left out.
AttacksItself(g, x1, x2) == AbsDiff(x1, x2) = AbsDiff(g[x1], g[x2])

\* Mutant of Attacks: the signed differences are compared, not abs_diff.
AttacksOneDiagonal(g, x1, x2) == x1 # x2 /\ x1 - x2 = g[x1] - g[x2]

\* The closure of `any` in beats_count: does the queen at x2 attack the one at x1.
Attacks(g, x1, x2) == x1 # x2 /\ AbsDiff(x1, x2) = AbsDiff(g[x1], g[x2])

\* Board::beats_count: enumerate().filter(any(..)).count() as u16.
RECURSIVE CountAttacked(_, _)
CountAttacked(g, x1) ==
    IF x1 > Len(g) THEN 0
    ELSE (IF \E x2 \in 1..Len(g) : Attacks(g, x1, x2) THEN 1 ELSE 0)
         + CountAttacked(g, x1 + 1)

beats_count(g) == CountAttacked(g, 1) % 65536

\* Mutant of fitness: the + 1.0 of the divisor is left out.
FitnessNoPlusOne(g) == [num |-> 1, den |-> beats_count(g)]

\* Board::fitness: 1.0 / (beats_count as f32 + 1.0), kept as the exact ratio
\* num / den (the f32 quotients of 1 by distinct integers up to 65536 are
\* distinct and ordered as the ratios are).
fitness(g) == [num |-> 1, den |-> beats_count(g) + 1]

\* f32 comparison of two fitness values.
FitnessLess(a, b) == a.num * b.den < b.num * a.den
FitnessEq(a, b) == a.num * b.den = b.num * a.den

\* is_fitting (bin/queen_placement.rs): fitness == 1.0
is_fitting(g) == fitness(g).num = fitness(g).den

\* ---------------------------------------------------------- selection.rs
U16(x) == x % 65536

\* Mutant of SimilarGenes: the position is kept in place of the gene.
SimilarGenesIndex(p1, p2) ==
    [i \in 1..(IF Len(p1) < Len(p2) THEN Len(p1) ELSE Len(p2)) |->
        IF p1[i] = p2[i] THEN i - 1 ELSE None]

\* Mutant of SimilarGenes: the comparison is inverted (p1 != p2).
SimilarGenesInverted(p1, p2) ==
    [i \in 1..(IF Len(p1) < Len(p2) THEN Len(p1) ELSE Len(p2)) |->
        IF p1[i] # p2[i] THEN p1[i] ELSE None]

\* crossover, lines 155-160: Some(p1) where the zipped parents agree, else None.
SimilarGenes(p1, p2) ==
    [i \in 1..(IF Len(p1) < Len(p2) THEN Len(p1) ELSE Len(p2)) |->
        IF p1[i] = p2[i] THEN p1[i] ELSE None]

\* Mutant of RestOfGenes: the filter is left out.
RestOfGenesUnfiltered(similar, base) == 0..(base - 1)

\* crossover, lines 163-166: the values of 0..base that no Some(..) slot holds.
RestOfGenes(similar, base) ==
    {g \in 0..(base - 1) : \A i \in DOMAIN similar : similar[i] # g}

\* Mutant of FillNones: every None slot takes the first of the shuffled rest.
FillNonesWithFirst(similar, rest) ==
    [i \in DOMAIN similar |->
        IF similar[i] # None THEN similar[i]
        ELSE IF Len(rest) > 0 THEN rest[1]
        ELSE None]

\* How many None slots there are up to position i.
NoneRank(similar, i) == Cardinality({k \in 1..i : similar[k] = None})

\* crossover, lines 171-177: the None slots, in order, zipped with the
\* shuffled rest; zip stops at the shorter of the two.
FillNones(similar, rest) ==
    [i \in DOMAIN similar |->
        IF similar[i] # None THEN similar[i]
        ELSE IF NoneRank(similar, i) <= Len(rest) THEN rest[NoneRank(similar, i)]
        ELSE None]

\* crossover, lines 179-183: map(Option::unwrap) panics on a None.
UnwrapGenes(slots) ==
    IF \E i \in DOMAIN slots : slots[i] = None THEN Panic ELSE Ok(slots)

\* crossover past the mutation test: one result per shuffle of the rest.
Recombine(p1, p2) ==
    LET similar == SimilarGenes(p1, p2)
    IN {UnwrapGenes(FillNones(similar, rest)) :
            rest \in Shuffles(RestOfGenes(similar, U16(Len(p1))))}

\* random::<Probability>(): an f32 of [0, 1), scaled.
RandomProbability == 0..(ProbabilityScale - 1)

\* crossover from the mutation test on (lines 147-184), whatever the lengths
\* of the parents: the draw, then the mutation return or the recombination.
crossover_body(p1, p2, mp) ==
    UNION {IF r < mp
           THEN {[mutated |-> TRUE, result |-> Ok(c)] :
                    c \in ChromosomeNew(U16(Len(p1)))}
           ELSE {[mutated |-> FALSE, result |-> x] : x \in Recombine(p1, p2)}
           : r \in RandomProbability}

\* crossover(parent1, parent2, mutation_probability): every run it can
\* make in either build, as the result and whether the mutation return was
\* taken.  A build with debug_assertions panics on parents of different
\* lengths; a build without them goes on.
crossover_runs(p1, p2, mp) ==
    (IF Len(p1) # Len(p2) THEN {[mutated |-> FALSE, result |-> Panic]} ELSE {})
    \cup crossover_body(p1, p2, mp)

\* Mutant of crossover_build: the assertion is compiled into every build.
crossover_asserting(debug, p1, p2, mp) ==
    IF Len(p1) # Len(p2)
    THEN {[mutated |-> FALSE, result |-> Panic]}
    ELSE crossover_runs(p1, p2, mp)

\* crossover in one build: the assert_eq! of lines 142-145 is compiled in
\* only under cfg(debug_assertions), and comes before everything else.
crossover_build(debug, p1, p2, mp) ==
    IF debug /\ Len(p1) # Len(p2)
    THEN {[mutated |-> FALSE, result |-> Panic]}
    ELSE crossover_body(p1, p2, mp)

crossover(p1, p2, mp) == {run.result : run \in crossover_runs(p1, p2, mp)}

\* Vec::swap_remove(idx): panics if idx is out of bounds, else takes the
\* element at idx and puts the last element in its place.
SwapRemoveItem(v, idx) == v[idx + 1]
SwapRemoveRest(v, idx) ==
    [k \in 1..(Len(v) - 1) |-> IF k = idx + 1 THEN v[Len(v)] ELSE v[k]]

\* Mutant of Truncate: the last n elements are kept, not the first.
TruncateTail(v, n) == IF n < Len(v) THEN SubSeq(v, Len(v) - n + 1, Len(v)) ELSE v

\* Vec::truncate(n)
Truncate(v, n) == IF n < Len(v) THEN SubSeq(v, 1, n) ELSE v

\* Mutant of MaxIndices: min_by in place of max_by.
MinIndices(gen) ==
    {i \in 0..(Len(gen) - 1) :
        \A j \in 1..Len(gen) : ~FitnessLess(fitness(gen[j]), fitness(gen[i + 1]))}

\* take_max: the indices (0-based) par_iter().max_by(fitness) may give; which
\* of several maximal elements is returned is not specified.
MaxIndices(gen) ==
    {i \in 0..(Len(gen) - 1) :
        \A j \in 1..Len(gen) : ~FitnessLess(fitness(gen[i + 1]), fitness(gen[j]))}

\* The offspring vectors a parallel map of n crossover calls can collect;
\* a panic in any task panics the call.
Offsprings(p1, p2, mp, n) ==
    LET results == crossover(p1, p2, mp)
        good == {r.val : r \in {x \in results : x.ok}}
    IN (IF n > 0 /\ \E r \in results : ~r.ok THEN {Panic} ELSE {})
       \cup {Ok(o) : o \in [1..n -> good]}

\* Mutant of adam_and_eve_impl: the rest of the population is kept in place
\* of the offspring.
AdamAndEveKeepsRest(gen, mp, population_size) ==
    IF Len(gen) < 2 THEN {Panic}
    ELSE UNION {
        LET p1 == SwapRemoveItem(gen, i1)
            g1 == SwapRemoveRest(gen, i1)
        IN {Ok(SwapRemoveRest(g1, i2) \o <<p1, SwapRemoveItem(g1, i2)>>) :
               i2 \in MaxIndices(g1)}
        : i1 \in MaxIndices(gen)}

\* adam_and_eve_impl: every result the call can give.
adam_and_eve_impl(gen, mp, population_size) ==
    IF Len(gen) = 0 THEN {Panic}               \* take_max: max_by(..).unwrap() on None
    ELSE UNION {
        LET p1 == SwapRemoveItem(gen, i1)
            g1 == SwapRemoveRest(gen, i1)
        IN IF Len(g1) = 0 THEN {Panic}
           ELSE UNION {
               LET p2 == SwapRemoveItem(g1, i2)
               IN {IF o.ok THEN Ok(o.val \o <<p1, p2>>) ELSE Panic :
                      o \in Offsprings(p1, p2, mp, population_size - 2)}
               : i2 \in MaxIndices(g1)}
        : i1 \in MaxIndices(gen)}

\* Mutant of SortRank: the key is the fitness, not its negation, so the
\* least fit comes first.
SortRankAscending(gen, i) ==
    1 + Cardinality({j \in 1..Len(gen) : FitnessLess(fitness(gen[j]), fitness(gen[i]))})
      + Cardinality({j \in 1..(i - 1) : FitnessEq(fitness(gen[i]), fitness(gen[j]))})

\* par_sort_by_cached_key(|ch| OrdF32(-fitness)): a stable sort, fittest first.
\* SortRank is the position (1-based) the element at i is moved to.
SortRank(gen, i) ==
    1 + Cardinality({j \in 1..Len(gen) : FitnessLess(fitness(gen[i]), fitness(gen[j]))})
      + Cardinality({j \in 1..(i - 1) : FitnessEq(fitness(gen[i]), fitness(gen[j]))})

SortByFitness(gen) ==
    [k \in 1..Len(gen) |-> gen[CHOOSE i \in 1..Len(gen) : SortRank(gen, i) = k]]

\* kill_the_half_impl: every result the call can give.  Each swap_remove
\* panics when its index is not below the length of the vector.
kill_the_half_impl(gen, mp, population_size) ==
    LET sorted == SortByFitness(gen)
    IN IF ~(0 < Len(sorted)) THEN {Panic}
       ELSE LET p1 == SwapRemoveItem(sorted, 0)
                v1 == SwapRemoveRest(sorted, 0)
            IN IF ~(1 < Len(v1)) THEN {Panic}
               ELSE LET p2 == SwapRemoveItem(v1, 1)
                        v2 == SwapRemoveRest(v1, 1)
                        v3 == Truncate(v2, population_size \div 2)
                    IN IF ~(0 < Len(v3)) THEN {Panic}
                       ELSE LET v4 == SwapRemoveRest(v3, 0)
                            IN IF ~(1 < Len(v4)) THEN {Panic}
                               ELSE LET v5 == SwapRemoveRest(v4, 1)
                                    IN {IF o.ok THEN Ok(v5 \o o.val \o <<p1, p2>>)
                                        ELSE Panic :
                                           o \in Offsprings(p1, p2, mp,
                                                   population_size - population_size \div 2)}

\* Mutant of tournament_impl: the strategy falls back to AdamAndEve.
TournamentFallsBack(gen, mp, population_size) ==
    adam_and_eve_impl(gen, mp, population_size)

\* tournament_impl: todo!()
tournament_impl(gen, mp, population_size) == {Panic}

\* new_generation(selection_strategy, current_generation, mutation_probability)
new_generation(strategy, gen, mp) ==
    LET population_size == Len(gen)
    IN CASE strategy = "AdamAndEve" -> adam_and_eve_impl(gen, mp, population_size)
         [] strategy = "KillTheHalf" -> kill_the_half_impl(gen, mp, population_size)
         [] strategy = "Tournament" -> tournament_impl(gen, mp, population_size)

SelectionStrategy == {"AdamAndEve", "KillTheHalf", "Tournament"}

\* Probability: the scaled values of [0.0, 1.0].
Probability == 0..ProbabilityScale

\* ------------------------------------------------- the engine over generations
\* b to the power e is at most m (b >= 1).
RECURSIVE PowerAtMost(_, _, _)
PowerAtMost(b, e, m) == IF e = 0 THEN 1 <= m ELSE PowerAtMost(b, e - 1, m \div b)

\* The population shapes <<board size, generation size>> explored in full:
\* those with at most MaxPopulations different populations.  main refuses a
\* generation size below 2.
Shapes ==
    {s \in (1..MaxBoardSize) \X (2..MaxGenerationSize) :
        PowerAtMost(Cardinality(ChromosomeNew(s[1])), s[2], MaxPopulations)}

\* The chromosomes of a board size that are solutions.
Solved(base) == {c \in ChromosomeNew(base) : is_fitting(c)}

\* The shapes explored for populations of solutions only.
SolvedShapes ==
    {s \in (1..MaxBoardSize) \X (2..MaxGenerationSize) : s[1] * s[2] <= MaxGenes}

\* Chromosome::create_generation(board_size, generation_size), called by main:
\* the populations of generation_size chromosomes, each a Chromosome::new.
create_generation(base, size) == [1..size -> ChromosomeNew(base)]

\* The values of the variables that the engine does not use.
NoCrossoverCall == parent1 = <<>> /\ parent2 = <<>> /\ offspring = <<>> /\ mutated = FALSE
NoBoard == genes = <<>> /\ beats = 0 /\ fit = [num |-> 1, den |-> 1]
NoProbability == given = "" /\ made = ""
NoParallelLoop ==
    /\ task_locals = <<>>
    /\ mutex = [holder |-> 0, poisoned |-> FALSE]
    /\ strong_count = 0
NoMutation == idx1 = None /\ idx2 = None
NoChromosomeCall ==
    /\ new_population_size = 0
    /\ tasks = 0
    /\ new_generation_vec = <<>>
    /\ NoParallelLoop
    /\ NoMutation
NoBoardOld == width = 0 /\ height = 0 /\ pieces = <<>> /\ beaten = FALSE

\* The state once the configuration is read and the first population is
\* made: any population of a shape explored in full, or a population of
\* solutions only (each a possible Chromosome::new) of a larger shape.
Init ==
    /\ \/ \E s \in Shapes :
             /\ board_size = s[1]
             /\ generation_size = s[2]
             /\ generation \in create_generation(s[1], s[2])
       \/ \E s \in SolvedShapes :
             /\ board_size = s[1]
             /\ generation_size = s[2]
             /\ generation \in [1..s[2] -> Solved(s[1])]
    /\ selection_strategy \in SelectionStrategy
    /\ mutation_probability \in Probability
    /\ status = "created"
    /\ debug_assertions = TRUE
    /\ NoCrossoverCall
    /\ NoBoard
    /\ NoProbability
    /\ NoChromosomeCall
    /\ NoBoardOld

\* One call generation = new_generation(strategy, generation, probability).
\* A panic ends the process; the population moved into the call is dropped.
NewGeneration ==
    /\ status \in {"created", "returned"}
    /\ \E r \in new_generation(selection_strategy, generation, mutation_probability) :
          /\ generation' = r.val
          /\ status' = IF r.ok THEN "returned" ELSE "panicked"
    /\ UNCHANGED <<board_size, selection_strategy, mutation_probability,
                   parent1, parent2, offspring, mutated, genes, beats, fit,
                   generation_size, debug_assertions,
                   probabilityVars, chromosomeVars, boardOldVars>>

\* The call under each configured strategy.
AdamAndEve ==
    /\ selection_strategy = "AdamAndEve"
    /\ NewGeneration

KillTheHalf ==
    /\ selection_strategy = "KillTheHalf"
    /\ NewGeneration

Tournament ==
    /\ selection_strategy = "Tournament"
    /\ NewGeneration

Next == AdamAndEve \/ KillTheHalf \/ Tournament

Spec == Init /\ [][Next]_vars

\* ------------------------------------------- one new_generation call on its own
\* The shapes <<board size, generation size>> given to one call: those with
\* at most MaxCallPopulations populations of one or two different
\* chromosomes.
CallShapes ==
    {c \in (1..MaxBoardSize) \X (2..MaxGenerationSize) :
        PowerAtMost(Cardinality(ChromosomeNew(c[1])), 2,
                    MaxCallPopulations \div (2 ^ c[2]))}

\* Of these, the shapes given to AdamAndEve, which makes P - 2 offspring:
\* at most MaxSiblings different offspring vectors.
AdamAndEveShapes ==
    {c \in CallShapes :
        PowerAtMost(Cardinality(ChromosomeNew(c[1])), c[2] - 2, MaxSiblings)}

\* The shapes given to KillTheHalf, which makes P - P/2 offspring and
\* returns only from 6 individuals on: at most MaxPopulations different
\* offspring vectors.
KillTheHalfShapes ==
    {c \in CallShapes :
        PowerAtMost(Cardinality(ChromosomeNew(c[1])), c[2] - c[2] \div 2,
                    MaxPopulations)}

\* The probabilities given to one call: 0.0, the smallest positive one
\* and 1.0.
CallProbabilities == {p \in Probability : p <= 1 \/ p = ProbabilityScale}

\* A population of the shape c of one or two different chromosomes, in any
\* arrangement, and the rest of the state before the one call.
InitCall(strategy, c) ==
    /\ selection_strategy = strategy
    /\ board_size = c[1]
    /\ generation_size = c[2]
    /\ \E a, b \in ChromosomeNew(c[1]) : generation \in [1..c[2] -> {a, b}]
    /\ mutation_probability \in CallProbabilities
    /\ status = "ready"
    /\ debug_assertions = TRUE
    /\ NoCrossoverCall
    /\ NoBoard
    /\ NoProbability
    /\ NoChromosomeCall
    /\ NoBoardOld

InitAdamAndEve == \E c \in AdamAndEveShapes : InitCall("AdamAndEve", c)

InitKillTheHalf == \E c \in KillTheHalfShapes : InitCall("KillTheHalf", c)

\* The one call generation = new_generation(strategy, generation, probability).
NewGenerationOnce ==
    /\ status = "ready"
    /\ \E r \in new_generation(selection_strategy, generation, mutation_probability) :
          /\ generation' = r.val
          /\ status' = IF r.ok THEN "done" ELSE "panicked"
    /\ UNCHANGED <<board_size, selection_strategy, mutation_probability,
                   parent1, parent2, offspring, mutated, genes, beats, fit,
                   generation_size, debug_assertions,
                   probabilityVars, chromosomeVars, boardOldVars>>

AdamAndEveOnce ==
    /\ selection_strategy = "AdamAndEve"
    /\ NewGenerationOnce

KillTheHalfOnce ==
    /\ selection_strategy = "KillTheHalf"
    /\ NewGenerationOnce

NextAdamAndEve == AdamAndEveOnce

SpecAdamAndEve == InitAdamAndEve /\ [][NextAdamAndEve]_vars

NextKillTheHalf == KillTheHalfOnce

SpecKillTheHalf == InitKillTheHalf /\ [][NextKillTheHalf]_vars

\* The engine over generations together with the single KillTheHalf calls
\* on the larger populations.
InitGenerations == Init \/ InitKillTheHalf

NextGenerations == AdamAndEve \/ KillTheHalf \/ Tournament \/ KillTheHalfOnce

SpecGenerations == InitGenerations /\ [][NextGenerations]_vars

\* ------------------------------------------------------------ main, the driver
\* Mutant of TooSmall: only a generation size below 1 is refused.
TooSmallBelowOne(size) == size < 1

\* main, line 30: generation_size.get() < 2
TooSmall(size) == size < 2

\* generation.par_iter().any(is_fitting)
AnyFitting(gen) == \E k \in 1..Len(gen) : is_fitting(gen[k])

\* The configurations main is started with: the shapes explored in full,
\* and every board size with the generation size 1 (a NonZeroUsize).
MainShapes == Shapes \cup ((1..MaxBoardSize) \X {1})

\* The state once Config::parse() has returned.
InitMain ==
    /\ \E s \in MainShapes :
          /\ board_size = s[1]
          /\ generation_size = s[2]
    /\ selection_strategy \in SelectionStrategy
    /\ mutation_probability \in Probability
    /\ generation = <<>>
    /\ status = "parsed"
    /\ debug_assertions = TRUE
    /\ NoCrossoverCall
    /\ NoBoard
    /\ NoProbability
    /\ NoChromosomeCall
    /\ NoBoardOld

\* Lines 30-33: the message and the return.
Refuse ==
    /\ status = "parsed"
    /\ TooSmall(generation_size)
    /\ status' = "refused"
    /\ UNCHANGED <<board_size, selection_strategy, mutation_probability, generation,
                   parent1, parent2, offspring, mutated, genes, beats, fit,
                   generation_size, debug_assertions,
                   probabilityVars, chromosomeVars, boardOldVars>>

\* Line 35: the first population.
CreateGeneration ==
    /\ status = "parsed"
    /\ ~TooSmall(generation_size)
    /\ generation' \in create_generation(board_size, generation_size)
    /\ status' = "created"
    /\ UNCHANGED <<board_size, selection_strategy, mutation_probability,
                   parent1, parent2, offspring, mutated, genes, beats, fit,
                   generation_size, debug_assertions,
                   probabilityVars, chromosomeVars, boardOldVars>>

\* Lines 39-44: one turn of the while loop, under each strategy.
LoopAdamAndEve ==
    /\ ~AnyFitting(generation)
    /\ AdamAndEve

LoopKillTheHalf ==
    /\ ~AnyFitting(generation)
    /\ KillTheHalf

LoopTournament ==
    /\ ~AnyFitting(generation)
    /\ Tournament

\* Lines 46-60: the loop is left and the solutions are printed.
Finish ==
    /\ status \in {"created", "returned"}
    /\ AnyFitting(generation)
    /\ status' = "finished"
    /\ UNCHANGED <<board_size, selection_strategy, mutation_probability, generation,
                   parent1, parent2, offspring, mutated, genes, beats, fit,
                   generation_size, debug_assertions,
                   probabilityVars, chromosomeVars, boardOldVars>>

NextMain ==
    \/ Refuse
    \/ CreateGeneration
    \/ LoopAdamAndEve
    \/ LoopKillTheHalf
    \/ LoopTournament
    \/ Finish

SpecMain == InitMain /\ [][NextMain]_vars

\* ------------------------------------------------------ crossover on its own
\* A call of crossover on two parents, each a Chromosome::new of one length.
ParentLengths ==
    {l \in 1..MaxBoardSize : PowerAtMost(Cardinality(ChromosomeNew(l)), 2, MaxPopulations)}

InitCrossover ==
    /\ \E l \in ParentLengths :
          /\ board_size = l
          /\ parent1 \in ChromosomeNew(l)
          /\ parent2 \in ChromosomeNew(l)
    /\ mutation_probability \in Probability
    /\ selection_strategy = "AdamAndEve"
    /\ generation = <<>>
    /\ offspring = <<>>
    /\ mutated = FALSE
    /\ status = "ready"
    /\ debug_assertions \in BOOLEAN
    /\ generation_size = 2
    /\ NoBoard
    /\ NoProbability
    /\ NoChromosomeCall
    /\ NoBoardOld

Crossover ==
    /\ status = "ready"
    /\ \E run \in crossover_build(debug_assertions, parent1, parent2,
                                   mutation_probability) :
          /\ offspring' = run.result.val
          /\ mutated' = run.mutated
          /\ status' = IF run.result.ok THEN "returned" ELSE "panicked"
    /\ UNCHANGED <<board_size, selection_strategy, mutation_probability, generation,
                   parent1, parent2, genes, beats, fit,
                   generation_size, debug_assertions,
                   probabilityVars, chromosomeVars, boardOldVars>>

NextCrossover == Crossover

SpecCrossover == InitCrossover /\ [][NextCrossover]_vars

\* The pairs of different parent lengths with at most MaxPopulations
\* different pairs of parents.
MismatchLengths ==
    {l \in (0..MaxBoardSize) \X (0..MaxBoardSize) :
        /\ l[1] # l[2]
        /\ Cardinality(ChromosomeNew(l[1])) * Cardinality(ChromosomeNew(l[2]))
              <= MaxPopulations}

\* A call of crossover on two parents of different lengths, in either build.
InitMismatch ==
    /\ \E l \in MismatchLengths :
          /\ board_size = l[1]
          /\ parent1 \in ChromosomeNew(l[1])
          /\ parent2 \in ChromosomeNew(l[2])
    /\ mutation_probability \in Probability
    /\ debug_assertions \in BOOLEAN
    /\ selection_strategy = "AdamAndEve"
    /\ generation = <<>>
    /\ offspring = <<>>
    /\ mutated = FALSE
    /\ status = "ready"
    /\ generation_size = 2
    /\ NoBoard
    /\ NoProbability
    /\ NoChromosomeCall
    /\ NoBoardOld

SpecMismatch == InitMismatch /\ [][NextCrossover]_vars

\* ---------------------------------------------------- the evaluator on its own
\* The gene sequences given to a Board: any values, repeated or not.
RECURSIVE SeqsUpTo(_, _)
SeqsUpTo(S, n) ==
    IF n = 0 THEN {<<>>} ELSE SeqsUpTo(S, n - 1) \cup [1..n -> S]

GeneSeqs == SeqsUpTo(0..MaxFixtureGene, MaxFixtureLen)

\* The chromosomes given to a Board: every Chromosome::new of a board size.
BoardChromosomes == UNION {ChromosomeNew(n) : n \in 0..MaxBoardSize}

InitBoard ==
    /\ genes \in GeneSeqs \cup BoardChromosomes
    /\ beats = 0
    /\ fit = [num |-> 1, den |-> 1]
    /\ board_size = Len(genes)
    /\ mutation_probability = 0
    /\ selection_strategy = "AdamAndEve"
    /\ generation = <<>>
    /\ status = "ready"
    /\ generation_size = 2
    /\ debug_assertions = TRUE
    /\ NoCrossoverCall
    /\ NoProbability
    /\ NoChromosomeCall
    /\ NoBoardOld

\* Board::from(&chromosome), then beats_count() and fitness().
Evaluate ==
    /\ status = "ready"
    /\ beats' = beats_count(genes)
    /\ fit' = fitness(genes)
    /\ status' = "returned"
    /\ UNCHANGED <<board_size, selection_strategy, mutation_probability, generation,
                   parent1, parent2, offspring, mutated, genes,
                   generation_size, debug_assertions,
                   probabilityVars, chromosomeVars, boardOldVars>>

NextBoard == Evaluate

SpecBoard == InitBoard /\ [][NextBoard]_vars

\* ------------------------------------------ Chromosome::new_generation
\* replace_nones on the chromosome pushed last: each None slot, in turn,
\* takes a sampled gene of 0..base that no slot holds yet (the sampling is
\* repeated until one is drawn).  The results are the fillings of the None
\* slots with different genes that no Some(..) slot holds.
ReplaceNones(chromosome, base) ==
    {f \in [DOMAIN chromosome -> 0..(base - 1)] :
        /\ \A i \in DOMAIN chromosome : chromosome[i] # None => f[i] = chromosome[i]
        /\ \A i \in DOMAIN chromosome : chromosome[i] = None =>
              \A j \in DOMAIN chromosome : j # i => f[j] # f[i]}

\* What one task of the parallel loop can push behind the mutex.  With base
\* 0 the sampler Uniform::from(0..0) panics.
NewGenerationTask(self, other) ==
    LET similar_genes == SimilarGenes(self, other)
        gene_digit_base == U16(Len(similar_genes))
    IN IF gene_digit_base = 0 THEN {Panic}
       ELSE {Ok(c) : c \in ReplaceNones(similar_genes, gene_digit_base)}

\* Mutant of PushParents: other is pushed before self.
PushParentsSwapped(new_gen, self, other) == new_gen \o <<other, self>>

\* Lines 88-90: new_gen.push(self); new_gen.push(other)
PushParents(new_gen, self, other) == new_gen \o <<self, other>>

\* The calls explored: parents of a length and a population_size with at
\* most MaxPopulations different results.
NewGenerationShapes ==
    {s \in (0..MaxBoardSize) \X (0..MaxGenerationSize) :
        PowerAtMost(Cardinality(ChromosomeNew(s[1])), s[2] + 2, MaxPopulations)}

InitNewGeneration ==
    /\ \E s \in NewGenerationShapes :
          /\ board_size = s[1]
          /\ parent1 \in ChromosomeNew(s[1])
          /\ parent2 \in ChromosomeNew(s[1])
          /\ new_population_size = s[2]
    /\ tasks = 0
    /\ new_generation_vec = <<>>
    /\ NoParallelLoop
    /\ NoMutation
    /\ status = "ready"
    /\ offspring = <<>>
    /\ mutated = FALSE
    /\ generation = <<>>
    /\ generation_size = 2
    /\ selection_strategy = "AdamAndEve"
    /\ mutation_probability = 0
    /\ debug_assertions = TRUE
    /\ NoBoard
    /\ NoProbability
    /\ NoBoardOld

\* What every step of the call leaves alone.
OnlyNewGeneration ==
    UNCHANGED <<board_size, selection_strategy, mutation_probability, generation,
                parent1, parent2, offspring, mutated, genes, beats, fit,
                generation_size, debug_assertions, new_population_size,
                task_locals, mutex, strong_count, idx1, idx2,
                probabilityVars, boardOldVars>>

\* Lines 45-64: the early return for population_size 0, else the empty
\* vector behind the mutex and the start of the parallel loop.
StartNewGeneration ==
    /\ status = "ready"
    /\ new_generation_vec' = <<>>
    /\ IF new_population_size = 0
       THEN tasks' = 0 /\ status' = "returned"
       ELSE tasks' = new_population_size /\ status' = "running"
    /\ OnlyNewGeneration

\* Lines 66-72: one task takes the lock, pushes similar_genes and fills its
\* None slots; the guard is dropped when replace_nones returns.  A panic
\* in a task is a panic of the call.
RunTask ==
    /\ status = "running"
    /\ tasks > 0
    /\ \E r \in NewGenerationTask(parent1, parent2) :
          IF r.ok
          THEN /\ new_generation_vec' = Append(new_generation_vec, r.val)
               /\ tasks' = tasks - 1
               /\ status' = "running"
          ELSE /\ new_generation_vec' = <<>>
               /\ tasks' = 0
               /\ status' = "panicked"
    /\ OnlyNewGeneration

\* Lines 74-90: the loop is over; the chromosomes are unwrapped and the
\* parents pushed.
CollectNewGeneration ==
    /\ status = "running"
    /\ tasks = 0
    /\ new_generation_vec' = PushParents(new_generation_vec, parent1, parent2)
    /\ tasks' = 0
    /\ status' = "returned"
    /\ OnlyNewGeneration

NextNewGeneration == StartNewGeneration \/ RunTask \/ CollectNewGeneration

SpecNewGeneration == InitNewGeneration /\ [][NextNewGeneration]_vars

\* ------------------------- the parallel loop of Chromosome::new_generation
\* Lines 56-60: the 0-based positions of the None slots, in order.
NonSimilarGenesIndices(similar) ==
    LET nones == {k \in DOMAIN similar : similar[k] = None}
    IN [r \in 1..Cardinality(nones) |->
           (CHOOSE k \in nones : NoneRank(similar, k) = r) - 1]

\* Mutant of CanLock: a lock that keeps nobody out.
CanLockAlways(m) == TRUE

\* Line 68: Mutex::lock returns once no other guard is alive.
CanLock(m) == m.holder = 0

\* Lines 103-106: does a Some(..) slot of the chromosome hold the gene.
HoldsGene(chromosome, gene) ==
    \E k \in DOMAIN chromosome : chromosome[k] # None /\ chromosome[k] = gene

\* A task of the parallel loop before its first step: where it is, the
\* element of the vector it pushed and the one its `chromosome` refers to
\* (counted from 1, 0 for none yet), how far it is in
\* non_similar_genes_indices, and its `gene`.
NewTask == [pc |-> "clone", pushed |-> 0, chromosome |-> 0, next |-> 0, gene |-> None]

\* Lines 75-86: Arc::try_unwrap(..).unwrap() panics while another Arc is
\* alive, into_inner().unwrap() on a poisoned Mutex and gene.unwrap() on a
\* None; else the chromosomes come out as they are.
UnwrapNewGen(count, m, new_gen) ==
    IF count # 1 \/ m.poisoned THEN Panic
    ELSE IF \E k \in DOMAIN new_gen : \E i \in DOMAIN new_gen[k] : new_gen[k][i] = None
    THEN Panic
    ELSE Ok(new_gen)

\* The chromosomes given as parents: the gene sequences of a length with
\* genes below it, every Chromosome::new among them.
Parents(base) == [1..base -> 0..(base - 1)]

\* The calls explored: parents of a length and at most MaxTasks tasks, with
\* at most MaxCallPopulations different contents of the vector.
ParallelShapes ==
    {s \in (0..MaxBoardSize) \X (0..MaxTasks) :
        PowerAtMost(Cardinality(ChromosomeNew(s[1])), s[2] + 2, MaxCallPopulations)}

InitParallel ==
    /\ \E s \in ParallelShapes :
          /\ board_size = s[1]
          /\ parent1 \in Parents(s[1])
          /\ parent2 \in Parents(s[1])
          /\ new_population_size = s[2]
    /\ tasks = 0
    /\ new_generation_vec = <<>>
    /\ NoParallelLoop
    /\ NoMutation
    /\ status = "ready"
    /\ offspring = <<>>
    /\ mutated = FALSE
    /\ generation = <<>>
    /\ generation_size = 2
    /\ selection_strategy = "AdamAndEve"
    /\ mutation_probability = 0
    /\ debug_assertions = TRUE
    /\ NoBoard
    /\ NoProbability
    /\ NoBoardOld

\* What every step of the call leaves alone.
OnlyParallel ==
    UNCHANGED <<board_size, selection_strategy, mutation_probability, generation,
                parent1, parent2, offspring, mutated, genes, beats, fit,
                generation_size, debug_assertions, new_population_size,
                idx1, idx2, probabilityVars, boardOldVars>>

\* Lines 45-66: the early return for population_size 0, else the empty
\* vector in its Mutex and Arc and the tasks of the parallel loop.
SpawnTasks ==
    /\ status = "ready"
    /\ new_generation_vec' = <<>>
    /\ IF new_population_size = 0
       THEN /\ status' = "returned"
            /\ tasks' = 0
            /\ UNCHANGED <<task_locals, mutex, strong_count>>
       ELSE /\ status' = "running"
            /\ tasks' = new_population_size
            /\ task_locals' = [t \in 1..new_population_size |-> NewTask]
            /\ mutex' = [holder |-> 0, poisoned |-> FALSE]
            /\ strong_count' = 1
    /\ OnlyParallel

\* Line 67: Arc::clone(&new_gen)
ArcClone ==
    /\ status = "running"
    /\ \E t \in DOMAIN task_locals :
          /\ task_locals[t].pc = "clone"
          /\ task_locals' = [task_locals EXCEPT ![t].pc = "lock"]
          /\ strong_count' = strong_count + 1
    /\ UNCHANGED <<status, tasks, new_generation_vec, mutex>>
    /\ OnlyParallel

\* Line 68: new_gen.lock().unwrap(): the task waits for the lock; on a
\* poisoned Mutex lock() is an Err and the task panics, dropping its Arc.
Lock ==
    /\ status = "running"
    /\ \E t \in DOMAIN task_locals :
          /\ task_locals[t].pc = "lock"
          /\ CanLock(mutex)
          /\ IF mutex.poisoned
             THEN /\ task_locals' = [task_locals EXCEPT ![t].pc = "panicked"]
                  /\ strong_count' = strong_count - 1
                  /\ tasks' = tasks - 1
                  /\ UNCHANGED mutex
             ELSE /\ task_locals' = [task_locals EXCEPT ![t].pc = "push"]
                  /\ mutex' = [mutex EXCEPT !.holder = t]
                  /\ UNCHANGED <<strong_count, tasks>>
    /\ UNCHANGED <<status, new_generation_vec>>
    /\ OnlyParallel

\* Line 69: new_gen_guard.push(similar_genes.to_owned())
Push ==
    /\ status = "running"
    /\ \E t \in DOMAIN task_locals :
          /\ task_locals[t].pc = "push"
          /\ new_generation_vec' =
                Append(new_generation_vec, SimilarGenes(parent1, parent2))
          /\ task_locals' = [task_locals EXCEPT
                ![t].pc = "last_mut",
                ![t].pushed = Len(new_generation_vec) + 1]
    /\ UNCHANGED <<status, tasks, mutex, strong_count>>
    /\ OnlyParallel

\* Lines 98-101: replace_nones takes the last chromosome of the vector and
\* makes the sampler; Uniform::from(0..0) panics, which drops the guard
\* (poisoning the Mutex) and the task's Arc.
LastMut ==
    /\ status = "running"
    /\ \E t \in DOMAIN task_locals :
          /\ task_locals[t].pc = "last_mut"
          /\ LET similar_genes == SimilarGenes(parent1, parent2)
                 gene_digit_base == U16(Len(similar_genes))
             IN IF gene_digit_base = 0
                THEN /\ task_locals' = [task_locals EXCEPT
                            ![t].pc = "panicked",
                            ![t].chromosome = Len(new_generation_vec)]
                     /\ mutex' = [holder |-> 0, poisoned |-> TRUE]
                     /\ strong_count' = strong_count - 1
                     /\ tasks' = tasks - 1
                ELSE /\ task_locals' = [task_locals EXCEPT
                            ![t].pc = IF Len(NonSimilarGenesIndices(similar_genes)) = 0
                                      THEN "drop" ELSE "sample",
                            ![t].chromosome = Len(new_generation_vec),
                            ![t].next = 1]
                     /\ UNCHANGED <<mutex, strong_count, tasks>>
    /\ UNCHANGED <<status, new_generation_vec>>
    /\ OnlyParallel

\* Lines 102 and 107: gene = sampler.sample(&mut rng)
SampleGene ==
    /\ status = "running"
    /\ \E t \in DOMAIN task_locals :
          /\ task_locals[t].pc = "sample"
          /\ \E g \in 0..(U16(Len(SimilarGenes(parent1, parent2))) - 1) :
                task_locals' = [task_locals EXCEPT ![t].pc = "while", ![t].gene = g]
    /\ UNCHANGED <<status, tasks, new_generation_vec, mutex, strong_count>>
    /\ OnlyParallel

\* Lines 103-109: while the chromosome holds the gene another is sampled;
\* else the gene is stored at the next of non_similar_genes_indices.
StoreGene ==
    /\ status = "running"
    /\ \E t \in DOMAIN task_locals :
          /\ task_locals[t].pc = "while"
          /\ LET l == task_locals[t]
                 indices == NonSimilarGenesIndices(SimilarGenes(parent1, parent2))
             IN IF HoldsGene(new_generation_vec[l.chromosome], l.gene)
                THEN /\ task_locals' = [task_locals EXCEPT ![t].pc = "sample"]
                     /\ UNCHANGED new_generation_vec
                ELSE /\ new_generation_vec' = [new_generation_vec EXCEPT
                            ![l.chromosome][indices[l.next] + 1] = l.gene]
                     /\ task_locals' = [task_locals EXCEPT
                            ![t].pc = IF l.next = Len(indices) THEN "drop" ELSE "sample",
                            ![t].next = l.next + 1]
    /\ UNCHANGED <<status, tasks, mutex, strong_count>>
    /\ OnlyParallel

\* Lines 111 and 72: replace_nones returns and drops the guard, the closure
\* returns and drops its Arc.
DropGuard ==
    /\ status = "running"
    /\ \E t \in DOMAIN task_locals :
          /\ task_locals[t].pc = "drop"
          /\ task_locals' = [task_locals EXCEPT ![t].pc = "done"]
          /\ mutex' = [mutex EXCEPT !.holder = 0]
          /\ strong_count' = strong_count - 1
          /\ tasks' = tasks - 1
    /\ UNCHANGED <<status, new_generation_vec>>
    /\ OnlyParallel

\* Lines 72-90: for_each returns once every task is over, resuming the
\* panic of a task; then the chromosomes are unwrapped and the parents
\* pushed.
Unwrap ==
    /\ status = "running"
    /\ tasks = 0
    /\ LET r == IF \E t \in DOMAIN task_locals : task_locals[t].pc = "panicked"
                THEN Panic
                ELSE UnwrapNewGen(strong_count, mutex, new_generation_vec)
       IN IF r.ok
          THEN /\ new_generation_vec' = PushParents(r.val, parent1, parent2)
               /\ status' = "returned"
          ELSE /\ new_generation_vec' = <<>>
               /\ status' = "panicked"
    /\ UNCHANGED <<tasks, task_locals, mutex, strong_count>>
    /\ OnlyParallel

NextParallel ==
    \/ SpawnTasks
    \/ ArcClone
    \/ Lock
    \/ Push
    \/ LastMut
    \/ SampleGene
    \/ StoreGene
    \/ DropGuard
    \/ Unwrap

SpecParallel == InitParallel /\ [][NextParallel]_vars

\* ------------------------------------------------------------ board_old.rs
\* A PiecePlace([x, y]) is the pair <<x, y>>.
\* Mutant of Beats: the test for the piece itself is left out.
BeatsItself(p, p1) ==
    ~(p[1] # p1[1] /\ p[2] # p1[2] /\ AbsDiff(p[1], p1[1]) # AbsDiff(p[2], p1[2]))

\* The inner closure of has_beaten, line 58.
Beats(p, p1) ==
    ~(\/ p[1] = p1[1] /\ p[2] = p1[2]
      \/ p[1] # p1[1] /\ p[2] # p1[2] /\ AbsDiff(p[1], p1[1]) # AbsDiff(p[2], p1[2]))

\* Board::has_beaten: any piece with any piece.
has_beaten(ps) == \E i \in 1..Len(ps) : \E j \in 1..Len(ps) : Beats(ps[i], ps[j])

\* Board::try_add_piece: the two bail! tests, else the push.
try_add_piece(w, h, ps, piece) ==
    IF piece[1] >= w \/ piece[2] >= h THEN Err
    ELSE IF \E k \in 1..Len(ps) : piece[1] = ps[k][1] /\ piece[2] = ps[k][2] THEN Err
    ELSE Ok(Append(ps, piece))

\* Board::new(width, height) for the widths and heights explored.
InitBoardOld ==
    /\ width \in 0..MaxOldBoard
    /\ height \in 0..MaxOldBoard
    /\ pieces = <<>>
    /\ beaten = FALSE
    /\ status = "ready"
    /\ board_size = 1
    /\ generation_size = 2
    /\ selection_strategy = "AdamAndEve"
    /\ mutation_probability = 0
    /\ generation = <<>>
    /\ debug_assertions = TRUE
    /\ NoCrossoverCall
    /\ NoBoard
    /\ NoProbability
    /\ NoChromosomeCall

\* What every call on the Board leaves alone.
OnlyBoardOld ==
    UNCHANGED <<board_size, selection_strategy, mutation_probability, generation,
                parent1, parent2, offspring, mutated, genes, beats, fit,
                generation_size, debug_assertions, width, height,
                probabilityVars, chromosomeVars>>

\* board.try_add_piece((x, y).into()) with any coordinates, one past the
\* largest board included; status tells how the last call ended.
TryAddPiece ==
    /\ Len(pieces) < MaxPieces
    /\ \E x, y \in 0..MaxOldBoard :
          LET r == try_add_piece(width, height, pieces, <<x, y>>)
          IN /\ pieces' = IF r.ok THEN r.val ELSE pieces
             /\ status' = IF r.ok THEN "added" ELSE "rejected"
    /\ UNCHANGED beaten
    /\ OnlyBoardOld

\* board.has_beaten()
HasBeaten ==
    /\ beaten' = has_beaten(pieces)
    /\ status' = "checked"
    /\ UNCHANGED pieces
    /\ OnlyBoardOld

NextBoardOld == TryAddPiece \/ HasBeaten

SpecBoardOld == InitBoardOld /\ [][NextBoardOld]_vars

\* ------------------------------------------- the Probability constructors
\* An f32: a finite value v / ProbabilityScale, an infinity or NaN.
Finite(v) == [class |-> "finite", scaled |-> v]
Infinite(sign) == [class |-> "infinite", scaled |-> sign]
NaN == [class |-> "nan", scaled |-> 0]

F32s == {Finite(v) : v \in (-MaxGiven)..MaxGiven} \cup {Infinite(-1), Infinite(1), NaN}

\* The &str given to from_str: a literal f32::from_str accepts ("0.5",
\* "-3", "inf", "NaN", ...) with the f32 it denotes, or any other text.
Literal(x) == [class |-> "literal", denotes |-> x]
Malformed == [class |-> "malformed", denotes |-> NaN]
Strs == {Literal(x) : x \in F32s} \cup {Malformed}

\* The thread's random number generator, given to Distribution::sample.
Rng == [class |-> "rng", scaled |-> 0]

\* f32 <=: false whenever an operand is NaN.
F32Le(a, b) ==
    /\ a.class # "nan"
    /\ b.class # "nan"
    /\ CASE a.class = "infinite" -> a.scaled = -1 \/ a = b
         [] b.class = "infinite" -> b.scaled = 1
         [] OTHER -> a.scaled <= b.scaled

\* Mutant of RangeContains: the half-open range lo..hi.
RangeContainsExclusive(lo, hi, p) == F32Le(lo, p) /\ F32Le(p, hi) /\ p # hi

\* (lo..=hi).contains(&p)
RangeContains(lo, hi, p) == F32Le(lo, p) /\ F32Le(p, hi)

\* Probability::new(p): ensure!((0.0..=1.0).contains(&p), ..); Ok(Self(p))
probability_new(p) ==
    IF RangeContains(Finite(0), Finite(ProbabilityScale), p) THEN Ok(p) ELSE Err

\* <Probability as TryFrom<f32>>::try_from(value)
try_from(value) == probability_new(value)

\* str::parse::<f32>()
parse_f32(str) == IF str.class = "literal" THEN Ok(str.denotes) ELSE Err

\* <Probability as FromStr>::from_str(s): Self::new(s.parse()?)
from_str(str) ==
    LET parsed == parse_f32(str)
    IN IF parsed.ok THEN probability_new(parsed.val) ELSE Err

\* Distribution<Probability>::sample: Probability(rng.gen())
sample == {Ok(Finite(r)) : r \in RandomProbability}

InitProbability ==
    /\ given \in F32s \cup Strs \cup {Rng}
    /\ made = ""
    /\ status = "ready"
    /\ board_size = 1
    /\ generation_size = 2
    /\ selection_strategy = "AdamAndEve"
    /\ mutation_probability = 0
    /\ generation = <<>>
    /\ debug_assertions = TRUE
    /\ NoCrossoverCall
    /\ NoBoard
    /\ NoChromosomeCall
    /\ NoBoardOld

\* What every constructor call leaves alone.
OnlyMade ==
    UNCHANGED <<board_size, selection_strategy, mutation_probability, generation,
                parent1, parent2, offspring, mutated, genes, beats, fit,
                generation_size, debug_assertions, given,
                chromosomeVars, boardOldVars>>

ProbabilityNew ==
    /\ status = "ready"
    /\ given \in F32s
    /\ made' = [by |-> "new", result |-> probability_new(given)]
    /\ status' = "returned"
    /\ OnlyMade

TryFrom ==
    /\ status = "ready"
    /\ given \in F32s
    /\ made' = [by |-> "try_from", result |-> try_from(given)]
    /\ status' = "returned"
    /\ OnlyMade

FromStr ==
    /\ status = "ready"
    /\ given \in Strs
    /\ made' = [by |-> "from_str", result |-> from_str(given)]
    /\ status' = "returned"
    /\ OnlyMade

Sample ==
    /\ status = "ready"
    /\ given = Rng
    /\ \E r \in sample : made' = [by |-> "sample", result |-> r]
    /\ status' = "returned"
    /\ OnlyMade

NextProbability == ProbabilityNew \/ TryFrom \/ FromStr \/ Sample

SpecProbability == InitProbability /\ [][NextProbability]_vars

\* ------------------------------------------------ Chromosome::maybe_mutate
\* Line 36: self.genes.swap(idx1, idx2)
Swap(g, i, j) == [g EXCEPT ![i + 1] = g[j + 1], ![j + 1] = g[i + 1]]

\* The f32 values given as the probability: the finite ones from below 0.0
\* to above 1.0, an infinity and NaN.
MutateProbabilities ==
    {Finite(v) : v \in (-1)..(ProbabilityScale + 1)} \cup {Infinite(1), NaN}

InitMaybeMutate ==
    /\ genes \in GeneSeqs \cup BoardChromosomes
    /\ given \in MutateProbabilities
    /\ made = ""
    /\ idx1 = None
    /\ idx2 = None
    /\ status = "ready"
    /\ beats = 0
    /\ fit = [num |-> 1, den |-> 1]
    /\ board_size = 1
    /\ generation_size = 2
    /\ selection_strategy = "AdamAndEve"
    /\ mutation_probability = 0
    /\ generation = <<>>
    /\ debug_assertions = TRUE
    /\ new_population_size = 0
    /\ tasks = 0
    /\ new_generation_vec = <<>>
    /\ NoParallelLoop
    /\ NoCrossoverCall
    /\ NoBoardOld

\* What every step of maybe_mutate leaves alone.
OnlyMaybeMutate ==
    UNCHANGED <<board_size, selection_strategy, mutation_probability, generation,
                parent1, parent2, offspring, mutated, beats, fit,
                generation_size, debug_assertions, given, made,
                new_population_size, tasks, new_generation_vec,
                task_locals, mutex, strong_count, boardOldVars>>

\* Lines 27-30: the assertion on the probability, the draw, and the sampler
\* when the draw is below the probability; Uniform::from(0..0) panics.
MutationTest ==
    /\ status = "ready"
    /\ IF ~RangeContains(Finite(0), Finite(ProbabilityScale), given)
       THEN status' = "panicked"
       ELSE \E r \in RandomProbability :
               status' = IF ~(r < given.scaled) THEN "returned"
                         ELSE IF Len(genes) = 0 THEN "panicked"
                         ELSE "sample1"
    /\ UNCHANGED <<genes, idx1, idx2>>
    /\ OnlyMaybeMutate

\* Line 31: idx1 = sampler.sample(&mut rng)
SampleIdx1 ==
    /\ status = "sample1"
    /\ idx1' \in 0..(Len(genes) - 1)
    /\ status' = "sample2"
    /\ UNCHANGED <<genes, idx2>>
    /\ OnlyMaybeMutate

\* Lines 32 and 34: idx2 = sampler.sample(&mut rng), giving i
SampleIdx2As(i) ==
    /\ status = "sample2"
    /\ i \in 0..(Len(genes) - 1)
    /\ idx2' = i
    /\ status' = "while"
    /\ UNCHANGED <<genes, idx1>>
    /\ OnlyMaybeMutate

SampleIdx2 == \E i \in 0..(MaxBoardSize - 1) : SampleIdx2As(i)

\* Lines 33-36: while idx2 == idx1 another idx2 is sampled; else the genes
\* at idx1 and idx2 are swapped and the call returns.
WhileSame ==
    /\ status = "while"
    /\ IF idx2 = idx1
       THEN status' = "sample2" /\ UNCHANGED genes
       ELSE status' = "returned" /\ genes' = Swap(genes, idx1, idx2)
    /\ UNCHANGED <<idx1, idx2>>
    /\ OnlyMaybeMutate

NextMaybeMutate == MutationTest \/ SampleIdx1 \/ SampleIdx2 \/ WhileSame

SpecMaybeMutate == InitMaybeMutate /\ [][NextMaybeMutate]_vars

\* The call goes on while it can, and the sampler is fair: an index that
\* can be sampled again and again is sampled at some time.
SpecMaybeMutateFair ==
    /\ SpecMaybeMutate
    /\ WF_vars(NextMaybeMutate)
    /\ \A i \in 0..(MaxBoardSize - 1) : SF_vars(SampleIdx2As(i))

\* ------------------------------------------------------------------ claims
\* c has length n and holds each value of 0..n-1 exactly once.
IsPermutation(c, n) ==
    /\ Len(c) = n
    /\ \A v \in 0..(n - 1) : Cardinality({i \in 1..Len(c) : c[i] = v}) = 1

\* A call of new_generation can be made in this state.
Callable == status \in {"created", "returned"}

\* C1: from a first population of Chromosome::new(N) chromosomes, after any
\* sequence of new_generation calls that return, every chromosome of the
\* population has length N and is a permutation of 0..N.
C1_PopulationOfPermutations ==
    status # "panicked" =>
        \A k \in 1..Len(generation) : IsPermutation(generation[k], board_size)

\* C1 witness: a population returned by a call that bred offspring by
\* recombination of two different parents on a board of size 3 or more.
C1_Witness ==
    /\ status = "returned"
    /\ board_size >= 3
    /\ Len(generation) >= 3
    /\ mutation_probability = 0
    /\ generation[Len(generation)] # generation[Len(generation) - 1]

\* Position i of gen is of maximal fitness among the positions of gen but those in skip.
IsMaxExcept(gen, i, skip) ==
    /\ i \in (1..Len(gen)) \ skip
    /\ \A j \in (1..Len(gen)) \ skip : ~FitnessLess(fitness(gen[i]), fitness(gen[j]))

\* out holds, as two different elements, an individual of maximal fitness of
\* inp and an individual of maximal fitness among the others of inp.
HoldsTopTwo(inp, out) ==
    \E i, j \in 1..Len(inp) :
        /\ IsMaxExcept(inp, i, {})
        /\ IsMaxExcept(inp, j, {i})
        /\ \E a, b \in 1..Len(out) : a # b /\ out[a] = inp[i] /\ out[b] = inp[j]

\* C2: every AdamAndEve call on a population of size P >= 2 returns, and
\* returns a population of size P that holds the two fittest individuals of
\* the input, by value and with multiplicity.
C2_AdamAndEveKeepsTopTwo ==
    [][(Callable /\ selection_strategy = "AdamAndEve" /\ Len(generation) >= 2) =>
          /\ status' = "returned"
          /\ Len(generation') = Len(generation)
          /\ HoldsTopTwo(generation, generation')]_vars

\* C2 witness: an AdamAndEve call has returned a population with offspring
\* whose two kept parents differ in fitness.
C2_Witness ==
    /\ status = "returned"
    /\ selection_strategy = "AdamAndEve"
    /\ Len(generation) >= 3
    /\ FitnessLess(fitness(generation[Len(generation)]),
                   fitness(generation[Len(generation) - 1]))

\* C3: every KillTheHalf call on a population of size P >= 2 returns (it does
\* not abort on an index out of range), and returns a population of size P
\* that holds the fittest individual of the input.
C3_KillTheHalfReturns ==
    [][(Callable /\ selection_strategy = "KillTheHalf" /\ Len(generation) >= 2) =>
          /\ status' = "returned"
          /\ Len(generation') = Len(generation)
          /\ \E i \in 1..Len(generation) :
                /\ IsMaxExcept(generation, i, {})
                /\ \E a \in 1..Len(generation') : generation'[a] = generation[i]]_vars

\* The positions where the two parents of the crossover call agree.
Agreement == {i \in 1..Len(parent1) : parent1[i] = parent2[i]}
Disagreement == (1..Len(parent1)) \ Agreement

\* The crossover call is over and did not take the mutation return.
Recombined == status # "ready" /\ ~mutated

\* C4: for parents that are permutations of 0..L, crossover past the mutation
\* test returns (no unwrap of a None) a permutation of 0..L, and the unused
\* values are as many as the positions where the parents disagree.
C4_CrossoverGivesPermutation ==
    Recombined =>
        /\ status = "returned"
        /\ IsPermutation(offspring, Len(parent1))
        /\ Cardinality((0..(Len(parent1) - 1)) \ {parent1[i] : i \in Agreement})
              = Cardinality(Disagreement)

\* C4 witness: a recombination of parents that agree somewhere and disagree
\* somewhere else has returned.
C4_Witness ==
    /\ Recombined
    /\ status = "returned"
    /\ Agreement # {}
    /\ Cardinality(Disagreement) >= 3

\* C5: past the mutation test the offspring has the parents' gene wherever
\* they agree, and the other positions hold exactly the values found at no
\* agreement position, each once.
C5_CrossoverKeepsAgreement ==
    (Recombined /\ status = "returned") =>
        /\ \A i \in Agreement : offspring[i] = parent1[i]
        /\ {offspring[i] : i \in Disagreement}
              = (0..(Len(parent1) - 1)) \ {parent1[i] : i \in Agreement}
        /\ \A i, j \in Disagreement : i # j => offspring[i] # offspring[j]

\* C5 witness: a returned recombination that kept a gene other than the
\* position's own index and filled two or more positions.
C5_Witness ==
    /\ Recombined
    /\ status = "returned"
    /\ \E i \in Agreement : parent1[i] # i - 1
    /\ Cardinality(Disagreement) >= 2

\* The evaluation of `genes` is over.
Evaluated == status = "returned"

\* The positions of g whose queen is on a diagonal of another position's.
AttackedPositions(g) ==
    {i \in 1..Len(g) :
        \E j \in (1..Len(g)) \ {i} :
            (i - j = g[i] - g[j]) \/ (i - j = g[j] - g[i])}

C7_RepeatedGeneFixtures ==
    Evaluated =>
        /\ (genes = <<0, 0>> => beats = 2)
        /\ (genes = <<0, 2, 2>> => beats = 3)

\* C8: fitness is in (0, 1], it is 1.0 exactly when beats_count is 0 (which
\* is is_fitting), and a chromosome with a larger beats_count has a strictly
\* smaller fitness.
C8_FitnessOrder ==
    Evaluated =>
        /\ 0 < fit.num /\ 0 < fit.den /\ fit.num <= fit.den
        /\ (fit.num = fit.den) <=> (beats = 0)
        /\ is_fitting(genes) <=> (beats = 0)
        /\ \A h \in GeneSeqs :
              beats_count(h) > beats => FitnessLess(fitness(h), fit)

\* C8 witness: an attacked chromosome evaluated to a fitness below 1.0 while
\* both fitter and less fit chromosomes exist.
C8_Witness ==
    /\ Evaluated
    /\ beats = 2
    /\ fit.num < fit.den
    /\ \E h \in GeneSeqs : beats_count(h) = 3

\* Every individual of gen has fitness 1.0.
AllFitting(gen) == \A k \in 1..Len(gen) : is_fitting(gen[k])

\* A call of AdamAndEve or KillTheHalf with mutation probability 0 on a
\* population whose individuals all have fitness 1.0 returns.
SolvedCallReturns ==
    /\ Callable
    /\ selection_strategy \in {"AdamAndEve", "KillTheHalf"}
    /\ mutation_probability = 0
    /\ AllFitting(generation)
    /\ status' = "returned"

CarriedOver(strategy, out) ==
    {Len(out) - 1, Len(out)}
    \cup (IF strategy = "KillTheHalf" THEN 1..(Len(out) \div 2 - 2) ELSE {})

C10_TournamentAborts ==
    /\ selection_strategy = "Tournament" => status # "returned"
    /\ (selection_strategy = "Tournament" /\ status = "panicked") => generation = <<>>

\* C10 witness: a Tournament call was made and aborted.
C10_Witness == selection_strategy = "Tournament" /\ status = "panicked"


\* The f32 a constructor was given: the value itself, or the one the text
\* denotes.
GivenValue == IF given.class = "literal" THEN given.denotes ELSE given

\* The given f32 is a number of [0.0, 1.0].
GivenInRange ==
    /\ given.class \in {"finite", "literal"}
    /\ GivenValue.class = "finite"
    /\ 0 <= GivenValue.scaled
    /\ GivenValue.scaled <= ProbabilityScale

\* C11: new, try_from and from_str succeed exactly when the given f32 is
\* a number of [0.0, 1.0], and then hold exactly that value; for NaN, an
\* infinity or a value outside the range they give an error and no
\* Probability.  A sampled Probability is in the range too.
C11_ProbabilityInRange ==
    status = "returned" =>
        IF made.by = "sample"
        THEN /\ made.result.ok
             /\ made.result.val.class = "finite"
             /\ made.result.val.scaled \in 0..ProbabilityScale
        ELSE /\ made.result.ok <=> GivenInRange
             /\ made.result.ok => made.result.val = GivenValue
             /\ ~made.result.ok => made.result = Err

\* C11 witness: from_str accepted the upper end 1.0, and this is a state
\* after a call.
C11_Witness ==
    /\ status = "returned"
    /\ made.by = "from_str"
    /\ made.result = Ok(Finite(ProbabilityScale))

\* A crossover call on parents of different lengths has ended.
MismatchCalled == status # "ready" /\ Len(parent1) # Len(parent2)

Min(a, b) == IF a < b THEN a ELSE b

C13_SmallGenerationRefused ==
    [][/\ generation_size < 2 => status' = "refused" /\ generation' = <<>>
       /\ status' \in {"returned", "panicked"} =>
             /\ generation_size >= 2
             /\ Len(generation) >= 2]_vars

\* C13 witness: main has refused the generation size 1.
C13_Witness == status = "refused" /\ generation_size = 1 /\ generation = <<>>

\* The board seen with its rows in reverse order, and with its columns
\* mirrored.
ReverseRows(c) == [i \in 1..Len(c) |-> c[Len(c) + 1 - i]]
MirrorColumns(c) == [i \in 1..Len(c) |-> Len(c) - 1 - c[i]]

\* C15: for a permutation c of 0..N, the beats_count of c is also the
\* beats_count of c with the rows reversed and of c with the columns
\* mirrored.
C15_BeatsCountReflection ==
    Evaluated /\ IsPermutation(genes, Len(genes)) =>
        /\ beats = beats_count(ReverseRows(genes))
        /\ beats = beats_count(MirrorColumns(genes))

\* C15 witness: [0,1,3,2] was evaluated to 4; its reflections [2,3,1,0]
\* and [3,2,0,1] are different boards.
C15_Witness ==
    /\ Evaluated
    /\ genes = <<0, 1, 3, 2>>
    /\ beats = 4
    /\ ReverseRows(genes) = <<2, 3, 1, 0>>
    /\ MirrorColumns(genes) = <<3, 2, 0, 1>>

\* Chromosome::new_generation has returned.
NewGenerationReturned ==
    /\ status = "returned"
    /\ IsPermutation(parent1, Len(parent1))
    /\ IsPermutation(parent2, Len(parent1))

\* The result is n offspring followed by self and other.
OffspringThenParents(n) ==
    /\ Len(new_generation_vec) = n + 2
    /\ new_generation_vec[n + 1] = parent1
    /\ new_generation_vec[n + 2] = parent2

\* C16 as stated: for every population_size >= 0 the call returns
\* population_size + 2 chromosomes, the last two being self and other.
C16_ReturnsSizePlusTwo ==
    NewGenerationReturned => OffspringThenParents(new_population_size)

\* C16: for population_size >= 1 and parents that are permutations of one
\* length >= 1 the call returns population_size + 2 chromosomes,
\* population_size offspring of the parents' length followed by self and
\* other; for population_size 0 it returns the empty vector; for empty
\* parents and population_size >= 1 it panics.
C16_ReturnsSizePlusTwoOrNothing ==
    /\ status \in {"returned", "panicked"} =>
          (status = "panicked" <=> new_population_size >= 1 /\ Len(parent1) = 0)
    /\ NewGenerationReturned =>
          IF new_population_size = 0
          THEN new_generation_vec = <<>>
          ELSE /\ OffspringThenParents(new_population_size)
               /\ \A k \in 1..new_population_size :
                     Len(new_generation_vec[k]) = Len(parent1)

\* C16 witness: a call with population_size 1 on two different parents of
\* length 3 has returned 3 chromosomes.
C16_Witness ==
    /\ NewGenerationReturned
    /\ new_population_size = 1
    /\ Len(parent1) = 3
    /\ parent1 # parent2
    /\ Len(new_generation_vec) = 3

\* Two pieces share a column, a row or a diagonal.
SharesLine(p, q) ==
    \/ p[1] = q[1]
    \/ p[2] = q[2]
    \/ Abs(p[1] - q[1]) = Abs(p[2] - q[2])

\* C17: on a board built by Board::new and successful try_add_piece calls
\* (the pieces are on the board and no two are on one square), has_beaten()
\* is true iff two different pieces share a column, a row or a diagonal; so
\* it is false for no piece and for one piece.
C17_HasBeatenIffTwoShareLine ==
    /\ \A i \in 1..Len(pieces) :
          /\ pieces[i][1] < width
          /\ pieces[i][2] < height
          /\ \A j \in 1..Len(pieces) : i # j => pieces[i] # pieces[j]
    /\ status = "checked" =>
          /\ beaten <=> \E i, j \in 1..Len(pieces) :
                           i # j /\ SharesLine(pieces[i], pieces[j])
          /\ Len(pieces) <= 1 => ~beaten

\* C17 witness: has_beaten() was false for the pieces (0,0) and (1,2).
C17_Witness ==
    /\ status = "checked"
    /\ pieces = <<<<0, 0>>, <<1, 2>>>>
    /\ ~beaten

\* c keeps the gene of p1 at every position where p1 and p2 agree.
KeepsAgreement(c, p1, p2) ==
    \A pos \in 1..Len(p1) : p1[pos] = p2[pos] => c[pos] = p1[pos]

\* How many elements of the sequence v are equal to c.
Count(c, v) == Cardinality({k \in 1..Len(v) : v[k] = c})

\* The fitness of every individual of a population.
FitnessOfEach(gen) == [k \in 1..Len(gen) |-> fitness(gen[k])]

\* In a population with the fitness values f, i is one of the fittest and
\* j one of the fittest of the others.
AreTopTwo(f, i, j) ==
    /\ i # j
    /\ \A k \in DOMAIN f : ~FitnessLess(f[i], f[k])
    /\ \A k \in DOMAIN f \ {i} : ~FitnessLess(f[j], f[k])

\* out is n crossover results of two top individuals of inp, then these two:
\* a crossover result is a chromosome of the board size, and without
\* mutation it keeps what the parents agree on.
OffspringOfTopTwo(inp, out, n, mp) ==
    LET f == FitnessOfEach(inp)
    IN /\ Len(out) = n + 2
       /\ \A k \in 1..n : IsPermutation(out[k], board_size)
       /\ \E i, j \in 1..Len(inp) :
             /\ out[n + 1] = inp[i]
             /\ out[n + 2] = inp[j]
             /\ AreTopTwo(f, i, j)
             /\ mp = 0 => \A k \in 1..n : KeepsAgreement(out[k], inp[i], inp[j])

\* C19: an AdamAndEve call on a population of size P >= 2 returns P - 2
\* results of crossover(parent1, parent2, p) followed by parent1 and
\* parent2, the two fittest of the input; with probability 0 each of the
\* first P - 2 individuals equals both parents wherever they agree.
C19_AdamAndEveOnlyOffspring ==
    [][(status = "ready" /\ selection_strategy = "AdamAndEve" /\ Len(generation) >= 2
           /\ status' = "done") =>
          OffspringOfTopTwo(generation, generation', Len(generation) - 2,
                            mutation_probability)]_vars

\* C19 witness: an AdamAndEve call without mutation has returned an
\* offspring between two different parents that agree on a gene, and the
\* offspring is neither parent.
C19_Witness ==
    /\ status = "done"
    /\ board_size = 4
    /\ selection_strategy = "AdamAndEve"
    /\ mutation_probability = 0
    /\ Len(generation) = 3
    /\ generation[2] # generation[3]
    /\ generation[2][1] = generation[3][1]
    /\ generation[1] \notin {generation[2], generation[3]}

\* out is what KillTheHalf makes of inp, a population of size P:
\* floor(P/2) - 2 survivors, P - floor(P/2) offspring, parent1, parent2.
\* The survivors and the parents are individuals of inp (with
\* multiplicity), the parents two fittest ones; the individuals of inp
\* left are the discarded ones, none of them fitter than a survivor.
\* An offspring is a chromosome of the board size, and without mutation it
\* keeps what the parents agree on.
KillTheHalfOutput(inp, out, mp) ==
    LET P == Len(inp)
        half == P \div 2
        f == FitnessOfEach(inp)
        survivors == SubSeq(out, 1, half - 2)
        carried == survivors \o <<out[P - 1], out[P]>>
        discarded == {k \in 1..P : Count(inp[k], inp) > Count(inp[k], carried)}
    IN /\ Len(out) = P
       /\ \E i, j \in 1..P :
             /\ out[P - 1] = inp[i]
             /\ out[P] = inp[j]
             /\ AreTopTwo(f, i, j)
       /\ \A k \in 1..Len(carried) : Count(carried[k], carried) <= Count(carried[k], inp)
       /\ \A k \in 1..Len(survivors) : \A d \in discarded :
             ~FitnessLess(fitness(survivors[k]), f[d])
       /\ \A k \in (half - 1)..(P - 2) :
             /\ IsPermutation(out[k], board_size)
             /\ mp = 0 => KeepsAgreement(out[k], out[P - 1], out[P])

\* C18: a KillTheHalf call on a population of size P that returns gives
\* floor(P/2) - 2 individuals carried over from the input, P - floor(P/2)
\* offspring of crossover(parent1, parent2) and then parent1 and parent2,
\* two fittest individuals of the input; no discarded individual is fitter
\* than a carried-over one.
C18_KillTheHalfOutput ==
    [][(status = "ready" /\ selection_strategy = "KillTheHalf" /\ status' = "done") =>
          KillTheHalfOutput(generation, generation', mutation_probability)]_vars

\* C18 witness: a KillTheHalf call on 6 individuals of board size 3 has
\* returned two equal parents and a survivor that is less fit than they are.
C18_Witness ==
    /\ status = "done"
    /\ selection_strategy = "KillTheHalf"
    /\ board_size = 3
    /\ Len(generation) = 6
    /\ generation[5] = generation[6]
    /\ FitnessLess(fitness(generation[1]), fitness(generation[5]))

\* Some individual of out is at least as fit as every individual of inp.
BestNotBelow(inp, out) ==
    LET old == FitnessOfEach(inp)
        new == FitnessOfEach(out)
    IN \E k \in DOMAIN new : \A j \in DOMAIN old : ~FitnessLess(new[k], old[j])

\* C20: over every AdamAndEve or KillTheHalf call that returns, whatever
\* the probability and the random outcomes, the best fitness of the
\* population does not decrease: some individual of the new population is at
\* least as fit as every individual of the old one.
C20_BestFitnessNeverDecreases ==
    [][(selection_strategy \in {"AdamAndEve", "KillTheHalf"}
           /\ status' \in {"returned", "done"}) =>
          BestNotBelow(generation, generation')]_vars

\* C20 witness: an AdamAndEve call in the loop has returned an offspring
\* that is less fit than the best individual kept.
C20_Witness ==
    /\ status = "returned"
    /\ selection_strategy = "AdamAndEve"
    /\ Len(generation) = 3
    /\ FitnessLess(fitness(generation[1]), fitness(generation[2]))

\* Task t is between its push and the drop of its guard.
HoldsGuard(t) == task_locals[t].pc \in {"push", "last_mut", "sample", "while", "drop"}

\* Every task of the parallel loop is over and none has panicked: the
\* accumulator is about to be unwrapped.
AboutToUnwrap ==
    /\ status = "running"
    /\ tasks = 0
    /\ \A t \in DOMAIN task_locals : task_locals[t].pc = "done"

\* C21: under every interleaving of the tasks of Chromosome::new_generation,
\* a task between its push and the end of replace_nones holds the guard and
\* the chromosome it fills is the one it pushed; when the accumulator is
\* unwrapped the Arc is the only one left, the Mutex is not poisoned and no
\* gene slot is None, so the call panics for parents without genes only;
\* every offspring returned has the parents' length, keeps the parents'
\* common gene at each agreement position and is a permutation of 0..L when
\* the parents are.
C21_TasksFillTheirOwnChromosome ==
    /\ \A t \in DOMAIN task_locals :
          /\ HoldsGuard(t) => mutex.holder = t
          /\ task_locals[t].chromosome # 0 =>
                task_locals[t].chromosome = task_locals[t].pushed
    /\ AboutToUnwrap =>
          /\ strong_count = 1
          /\ ~mutex.poisoned
          /\ Len(new_generation_vec) = new_population_size
          /\ \A k \in DOMAIN new_generation_vec :
                \A i \in DOMAIN new_generation_vec[k] : new_generation_vec[k][i] # None
    /\ status = "panicked" => Len(parent1) = 0
    /\ (status = "returned" /\ new_population_size >= 1) =>
          /\ Len(new_generation_vec) = new_population_size + 2
          /\ \A k \in 1..new_population_size :
                /\ Len(new_generation_vec[k]) = Len(parent1)
                /\ KeepsAgreement(new_generation_vec[k], parent1, parent2)
                /\ (IsPermutation(parent1, Len(parent1)) /\ IsPermutation(parent2, Len(parent2)))
                      => IsPermutation(new_generation_vec[k], Len(parent1))

\* C21 witness: a call on two permutations of 0..3 that agree at one
\* position has returned two different offspring, the first of them pushed
\* by the second task.
C21_Witness ==
    /\ status = "returned"
    /\ new_population_size = 2
    /\ parent1 = <<0, 1, 2>>
    /\ parent2 = <<0, 2, 1>>
    /\ task_locals[2].pushed = 1
    /\ task_locals[1].pushed = 2
    /\ new_generation_vec[1] # new_generation_vec[2]

\* out is inp, or inp with the genes at two different positions exchanged.
SameOrSwapped(inp, out) ==
    \/ out = inp
    \/ \E i, j \in 0..(Len(inp) - 1) : i # j /\ out = Swap(inp, i, j)

\* A call of maybe_mutate on a chromosome with a gene at least and a
\* probability of [0, 1] is about to be made.
MutateCalled ==
    /\ status = "ready"
    /\ Len(genes) >= 1
    /\ RangeContains(Finite(0), Finite(ProbabilityScale), given)

\* The genes on the return of maybe_mutate are the previous genes, or these
\* with two different positions exchanged.
ReturnsSameOrSwapped ==
    [][(status # "returned" /\ status' = "returned") => SameOrSwapped(genes, genes')]_vars

\* C22: for every chromosome of length >= 1 and every probability in
\* [0, 1], maybe_mutate returns under fair sampling of the indices, and on
\* return the genes are unchanged or differ from the previous genes by the
\* exchange of two different positions.
C22_MaybeMutateReturnsSwapped ==
    /\ MutateCalled ~> (status = "returned")
    /\ ReturnsSameOrSwapped

\* The same for chromosomes of length >= 2.
MaybeMutateReturnsFromTwoGenes ==
    /\ (MutateCalled /\ Len(genes) >= 2) ~> (status = "returned")
    /\ ReturnsSameOrSwapped

====
